---- MODULE Spec2Model ----
(***************************************************************************)
(* leetup: the `list` command.  Model of src/service/leetcode.rs           *)
(* (Leetcode::list_problems, apply_queries) and src/service/list.rs        *)
(* (Query::from_str, apply_queries, list_problems).                        *)
(*                                                                         *)
(* A Rust String is a sequence of characters; a character is a one-letter  *)
(* TLA+ string ("e_acute" and "E_ACUTE" stand for U+00E9 and U+00C9).      *)
(* An Option<T> is the empty sequence (None) or a one-element sequence     *)
(* (Some(v)).                                                              *)
(***************************************************************************)
EXTENDS Integers, Sequences, FiniteSets, TLC

VARIABLES
    pc,        \* "start" | "done" | "panic"
    list,      \* cmd::List: [order, query, keyword], each an Option<String>
    fetched,   \* res.stat_status_pairs as fetch_all_problems returned it
    probs,     \* res.stat_status_pairs after probs.sort_by(..)
    queries,   \* the Vec<Query> the filter predicate evaluated (Query::from_str)
    rendered   \* the sequence handed to pretty_list

vars == <<pc, list, fetched, probs, queries, rendered>>

----------------------------------------------------------------------------
(* Bounds of the model.                                                     *)

MaxQueryLen == 3      \* longest -q string (SpecQuery)
MaxClauseLen == 3     \* longest -q string (SpecEval)
MaxProbs == 3         \* most records fetched (SpecSort)
MaxOrderLen == 2      \* longest -o string (SpecSort)
MaxDefaultProbs == 2  \* most records fetched (SpecDefault)
MaxKeywordLen == 2    \* longest generated -k string (SpecKeyword)
MaxFilterProbs == 3   \* most records fetched (SpecFilter)

----------------------------------------------------------------------------
(* Option<T>                                                                *)

None == <<>>
Some(v) == <<v>>
is_some(o) == Len(o) = 1
is_none(o) == Len(o) = 0
unwrap(o) == o[1]
unwrap_or(o, d) == IF is_some(o) THEN o[1] ELSE d

SeqsUpTo(S, n) == UNION {[1..k -> S] : k \in 0..n}

----------------------------------------------------------------------------
(* std::cmp::Ordering and the comparisons the sorter uses                   *)

Less == "Less"
Equal == "Equal"
Greater == "Greater"

\* usize::cmp
cmp_usize(a, b) == IF a < b THEN Less ELSE IF a = b THEN Equal ELSE Greater

\* bool::cmp: false < true
cmp_bool(a, b) == IF a = b THEN Equal ELSE IF b THEN Less ELSE Greater

\* reverse left out.
reverse_missing(o) == o

\* Ordering::reverse
reverse(o) == IF o = Less THEN Greater ELSE IF o = Greater THEN Less ELSE Equal

\* Ordering::then
then(o, other) == IF o = Equal THEN other ELSE o

\* The code point of each character the model's strings are made of.
CodePoint ==
    [c \in {"-", "3", "S", "T", "U", "a", "b", "c", "i", "m", "n", "o", "s",
            "t", "u", "w", "E_ACUTE", "e_acute"} |->
        CASE c = "-" -> 45 [] c = "3" -> 51
          [] c = "S" -> 83 [] c = "T" -> 84 [] c = "U" -> 85
          [] c = "a" -> 97 [] c = "b" -> 98 [] c = "c" -> 99
          [] c = "i" -> 105 [] c = "m" -> 109 [] c = "n" -> 110
          [] c = "o" -> 111 [] c = "s" -> 115 [] c = "t" -> 116
          [] c = "u" -> 117 [] c = "w" -> 119
          [] c = "E_ACUTE" -> 201 [] c = "e_acute" -> 233]

\* str::cmp: lexicographic by code point, a proper prefix is Less
RECURSIVE cmp_str(_, _)
cmp_str(a, b) ==
    IF Len(a) = 0 THEN (IF Len(b) = 0 THEN Equal ELSE Less)
    ELSE IF Len(b) = 0 THEN Greater
    ELSE IF a[1] = b[1] THEN cmp_str(Tail(a), Tail(b))
    ELSE cmp_usize(CodePoint[a[1]], CodePoint[b[1]])

\* Option<String>::cmp: None < Some(_), Some by content
cmp_option_str(a, b) ==
    IF is_none(a) THEN (IF is_none(b) THEN Equal ELSE Less)
    ELSE IF is_none(b) THEN Greater
    ELSE cmp_str(unwrap(a), unwrap(b))

----------------------------------------------------------------------------
(* StatStatusPair.  The fields the list command reads, in declaration       *)
(* order: stat.question_id, stat.question_title_slug, status,               *)
(* difficulty.level, paid_only, is_favor.                                   *)

StatStatusPair(id, slug, status, level, paid, favor) ==
    [question_id |-> id, question_title_slug |-> slug, status |-> status,
     level |-> level, paid_only |-> paid, is_favor |-> favor]

\* derived_cmp had the title slug been declared before the identifier.
derived_cmp_title_first(a, b) ==
    then(cmp_str(a.question_title_slug, b.question_title_slug),
    then(cmp_usize(a.question_id, b.question_id),
    then(cmp_option_str(a.status, b.status),
    then(cmp_usize(a.level, b.level),
    then(cmp_bool(a.paid_only, b.paid_only),
         cmp_bool(a.is_favor, b.is_favor))))))

\* #[derive(Ord)] on StatStatusPair: the fields in declaration order, the
\* first one that differs decides (stat first, question_id first in it).
derived_cmp(a, b) ==
    then(cmp_usize(a.question_id, b.question_id),
    then(cmp_str(a.question_title_slug, b.question_title_slug),
    then(cmp_option_str(a.status, b.status),
    then(cmp_usize(a.level, b.level),
    then(cmp_bool(a.paid_only, b.paid_only),
         cmp_bool(a.is_favor, b.is_favor))))))

----------------------------------------------------------------------------
(* The query language: enum Query and Query::from_str                       *)

Query ==
    {"Easy", "Medium", "Hard", "NotEasy", "NotMedium", "NotHard",
     "Locked", "Unlocked", "Done", "NotDone", "Starred", "Unstarred"}

\* Query_from_char matching without regard to case: 'E' taken for 'e'.
Query_from_char_ignoring_case(c) ==
    CASE c \in {"e", "E"} -> Some("Easy")
      [] c \in {"m", "M"} -> Some("Medium")
      [] c \in {"h", "H"} -> Some("Hard")
      [] c \in {"l", "L"} -> Some("Locked")
      [] c \in {"d", "D"} -> Some("Done")
      [] c \in {"s", "S"} -> Some("Starred")
      [] OTHER -> None

\* One arm of the match in Query::from_str: the clause pushed for c, if any.
Query_from_char(c) ==
    CASE c = "e" -> Some("Easy")
      [] c = "E" -> Some("NotEasy")
      [] c = "m" -> Some("Medium")
      [] c = "M" -> Some("NotMedium")
      [] c = "h" -> Some("Hard")
      [] c = "H" -> Some("NotHard")
      [] c = "l" -> Some("Locked")
      [] c = "L" -> Some("Unlocked")
      [] c = "d" -> Some("Done")
      [] c = "D" -> Some("NotDone")
      [] c = "s" -> Some("Starred")
      [] c = "S" -> Some("Unstarred")
      [] OTHER -> None

\* Query::from_str: for c in q.chars() { match c { .. => queries.push(..) } }
RECURSIVE Query_from_str(_)
Query_from_str(q) ==
    IF Len(q) = 0 THEN <<>>
    ELSE Query_from_str(SubSeq(q, 1, Len(q) - 1)) \o Query_from_char(q[Len(q)])

\* query_arm with the NotHard arm copied from NotMedium and left at level 2.
query_arm_copied(q, o) ==
    CASE q = "Easy" -> o.level = 1
      [] q = "NotEasy" -> o.level # 1
      [] q = "Medium" -> o.level = 2
      [] q = "NotMedium" -> o.level # 2
      [] q = "Hard" -> o.level = 3
      [] q = "NotHard" -> o.level # 2
      [] q = "Locked" -> o.paid_only
      [] q = "Unlocked" -> ~o.paid_only
      [] q = "Done" -> is_some(o.status)
      [] q = "NotDone" -> is_none(o.status)
      [] q = "Starred" -> o.is_favor
      [] q = "Unstarred" -> ~o.is_favor

\* One arm of the match in apply_queries: the value and-ed into is_satisfied.
query_arm(q, o) ==
    CASE q = "Easy" -> o.level = 1
      [] q = "NotEasy" -> o.level # 1
      [] q = "Medium" -> o.level = 2
      [] q = "NotMedium" -> o.level # 2
      [] q = "Hard" -> o.level = 3
      [] q = "NotHard" -> o.level # 3
      [] q = "Locked" -> o.paid_only
      [] q = "Unlocked" -> ~o.paid_only
      [] q = "Done" -> is_some(o.status)
      [] q = "NotDone" -> is_none(o.status)
      [] q = "Starred" -> o.is_favor
      [] q = "Unstarred" -> ~o.is_favor

\* apply_queries: is_satisfied starts true and is and-ed with each arm in turn.
RECURSIVE apply_queries(_, _)
apply_queries(qs, o) ==
    IF Len(qs) = 0 THEN TRUE
    ELSE apply_queries(SubSeq(qs, 1, Len(qs) - 1), o) /\ query_arm(qs[Len(qs)], o)

----------------------------------------------------------------------------
(* The keyword filter                                                       *)

AsciiUpper ==
    <<"A", "B", "C", "D", "E", "F", "G", "H", "I", "J", "K", "L", "M",
      "N", "O", "P", "Q", "R", "S", "T", "U", "V", "W", "X", "Y", "Z">>
AsciiLower ==
    <<"a", "b", "c", "d", "e", "f", "g", "h", "i", "j", "k", "l", "m",
      "n", "o", "p", "q", "r", "s", "t", "u", "v", "w", "x", "y", "z">>

\* char::to_ascii_lowercase: 'A'..='Z' to 'a'..='z', every other character kept
char_to_ascii_lowercase(c) ==
    IF \E i \in DOMAIN AsciiUpper : AsciiUpper[i] = c
    THEN AsciiLower[CHOOSE i \in DOMAIN AsciiUpper : AsciiUpper[i] = c]
    ELSE c

\* to_ascii_lowercase left out: the keyword used as typed.
to_ascii_lowercase_missing(s) == s

\* str::to_ascii_lowercase
to_ascii_lowercase(s) == [i \in DOMAIN s |-> char_to_ascii_lowercase(s[i])]

\* str::starts_with
starts_with(h, n) == Len(n) <= Len(h) /\ SubSeq(h, 1, Len(n)) = n

\* str::contains: the needle starts at some offset of the haystack
RECURSIVE contains(_, _)
contains(h, n) ==
    IF starts_with(h, n) THEN TRUE
    ELSE IF Len(h) = 0 THEN FALSE
    ELSE contains(Tail(h), n)

\* The closure filter_predicate of Leetcode::list_problems.  It parses with
\* cmd::Query::from_str, whose enum is the one of list.rs; list.rs's parser
\* stands for it.
filter_predicate(l, o) ==
    LET default_keyword == <<>>
        keyword == to_ascii_lowercase(unwrap_or(l.keyword, default_keyword))
        has_keyword == contains(o.question_title_slug, keyword)
    IN  IF is_none(l.query) THEN has_keyword
        ELSE has_keyword /\ apply_queries(Query_from_str(unwrap(l.query)), o)

\* The closure filter_predicate of list.rs's list_problems (queries parsed before).
list_filter_predicate(l, qs, o) ==
    LET default_keyword == <<>>
        keyword == to_ascii_lowercase(unwrap_or(l.keyword, default_keyword))
    IN  contains(o.question_title_slug, keyword) /\ apply_queries(qs, o)

\* filter collecting each kept record in front of the earlier ones.
RECURSIVE filter_prepending(_, _)
filter_prepending(v, l) ==
    IF Len(v) = 0 THEN <<>>
    ELSE (IF filter_predicate(l, v[Len(v)]) THEN <<v[Len(v)]>> ELSE <<>>)
            \o filter_prepending(SubSeq(v, 1, Len(v) - 1), l)

\* probs.iter().filter(filter_predicate).collect()
RECURSIVE filter(_, _)
filter(v, l) ==
    IF Len(v) = 0 THEN <<>>
    ELSE filter(SubSeq(v, 1, Len(v) - 1), l)
            \o (IF filter_predicate(l, v[Len(v)]) THEN <<v[Len(v)]>> ELSE <<>>)

RECURSIVE list_filter(_, _, _)
list_filter(v, l, qs) ==
    IF Len(v) = 0 THEN <<>>
    ELSE list_filter(SubSeq(v, 1, Len(v) - 1), l, qs)
            \o (IF list_filter_predicate(l, qs, v[Len(v)]) THEN <<v[Len(v)]>> ELSE <<>>)

----------------------------------------------------------------------------
(* The order specification and the sorter                                   *)

OrderBy == {"IdAsc", "IdDesc", "TitleAsc", "TitleDesc", "DifficultyAsc", "DifficultyDesc"}

\* cmd::OrderBy::from_str is not among the sources: one sort key per
\* recognized token, in order, every other token skipped (the letters are
\* those of the command's help: i/I id, t/T title, d/D difficulty).
OrderBy_from_char(c) ==
    CASE c = "i" -> Some("IdAsc")
      [] c = "I" -> Some("IdDesc")
      [] c = "t" -> Some("TitleAsc")
      [] c = "T" -> Some("TitleDesc")
      [] c = "d" -> Some("DifficultyAsc")
      [] c = "D" -> Some("DifficultyDesc")
      [] OTHER -> None

RECURSIVE OrderBy_from_str(_)
OrderBy_from_str(s) ==
    IF Len(s) = 0 THEN <<>>
    ELSE OrderBy_from_str(SubSeq(s, 1, Len(s) - 1)) \o OrderBy_from_char(s[Len(s)])

\* order_arm with the two id arms exchanged.
order_arm_id_exchanged(order, a, b) ==
    LET id_ordering == cmp_usize(a.question_id, b.question_id)
        title_ordering == cmp_str(a.question_title_slug, b.question_title_slug)
        diff_ordering == cmp_usize(a.level, b.level)
    IN  CASE order = "IdAsc" -> reverse(id_ordering)
          [] order = "IdDesc" -> id_ordering
          [] order = "TitleAsc" -> title_ordering
          [] order = "TitleDesc" -> reverse(title_ordering)
          [] order = "DifficultyAsc" -> diff_ordering
          [] order = "DifficultyDesc" -> reverse(diff_ordering)

\* One arm of the match in the sort closure: the ordering given to then().
order_arm(order, a, b) ==
    LET id_ordering == cmp_usize(a.question_id, b.question_id)
        title_ordering == cmp_str(a.question_title_slug, b.question_title_slug)
        diff_ordering == cmp_usize(a.level, b.level)
    IN  CASE order = "IdAsc" -> id_ordering
          [] order = "IdDesc" -> reverse(id_ordering)
          [] order = "TitleAsc" -> title_ordering
          [] order = "TitleDesc" -> reverse(title_ordering)
          [] order = "DifficultyAsc" -> diff_ordering
          [] order = "DifficultyDesc" -> reverse(diff_ordering)

\* sort_closure folding the other way: arm.then(ordering), the last key first.
RECURSIVE sort_closure_last_key_first(_, _, _)
sort_closure_last_key_first(orders, a, b) ==
    IF Len(orders) = 0 THEN Equal
    ELSE then(order_arm(orders[Len(orders)], a, b),
              sort_closure_last_key_first(SubSeq(orders, 1, Len(orders) - 1), a, b))

\* The sort closure: ordering starts Equal; for order in &orders
\* { ordering = ordering.then(arm) }
RECURSIVE sort_closure(_, _, _)
sort_closure(orders, a, b) ==
    IF Len(orders) = 0 THEN Equal
    ELSE then(sort_closure(SubSeq(orders, 1, Len(orders) - 1), a, b),
              order_arm(orders[Len(orders)], a, b))

\* compare falling back to Ord::cmp when the order string gives no sort key.
compare_with_fallback(order, a, b) ==
    IF is_some(order) /\ OrderBy_from_str(unwrap(order)) # <<>>
    THEN sort_closure(OrderBy_from_str(unwrap(order)), a, b)
    ELSE derived_cmp(a, b)

\* The comparator list_problems sorts with: the closure over the parsed
\* orders when list.order is Some, Ord::cmp otherwise.
compare(order, a, b) ==
    IF is_some(order) THEN sort_closure(OrderBy_from_str(unwrap(order)), a, b)
    ELSE derived_cmp(a, b)

\* insert as sort_unstable_by may place x: in front of the elements equal to it.
RECURSIVE insert_unstable(_, _, _)
insert_unstable(s, x, order) ==
    IF Len(s) = 0 THEN <<x>>
    ELSE IF compare(order, s[Len(s)], x) # Less
         THEN Append(insert_unstable(SubSeq(s, 1, Len(s) - 1), x, order), s[Len(s)])
         ELSE Append(s, x)

\* slice::sort_by is a stable sort; as an insertion sort: x goes behind every
\* element that is not Greater than it.
RECURSIVE insert(_, _, _)
insert(s, x, order) ==
    IF Len(s) = 0 THEN <<x>>
    ELSE IF compare(order, s[Len(s)], x) = Greater
         THEN Append(insert(SubSeq(s, 1, Len(s) - 1), x, order), s[Len(s)])
         ELSE Append(s, x)

RECURSIVE sort_by(_, _)
sort_by(v, order) ==
    IF Len(v) = 0 THEN <<>>
    ELSE insert(sort_by(SubSeq(v, 1, Len(v) - 1), order), v[Len(v)], order)

----------------------------------------------------------------------------
(* The two list commands                                                    *)

\* Leetcode::list_problems (src/service/leetcode.rs)
Leetcode_list_problems ==
    /\ pc = "start"
    /\ probs' = sort_by(fetched, list.order)
    /\ rendered' = IF is_some(list.query) \/ is_some(list.keyword)
                   THEN filter(probs', list)
                   ELSE probs'
    /\ pc' = "done"
    /\ UNCHANGED <<list, fetched, queries>>

\* list_problems (src/service/list.rs): list.query.as_ref().unwrap() panics
\* on None, after the fetch and before the sort.
list_problems ==
    /\ pc = "start"
    /\ IF is_none(list.query)
       THEN /\ pc' = "panic"
            /\ UNCHANGED <<probs, queries, rendered>>
       ELSE /\ queries' = Query_from_str(unwrap(list.query))
            /\ probs' = sort_by(fetched, None)
            /\ rendered' = list_filter(probs', list, queries')
            /\ pc' = "done"
    /\ UNCHANGED <<list, fetched>>

Next == Leetcode_list_problems \/ list_problems

----------------------------------------------------------------------------
(* Query::from_str on every short -q string (list.rs's list_problems)       *)

QueryChars == {"e", "E", "m", "M", "h", "H", "l", "L", "d", "D", "s", "S"}
NoiseChars == {"x", "1"}

Record1 == StatStatusPair(1, <<"a">>, None, 1, FALSE, FALSE)
Record2 == StatStatusPair(2, <<"b">>, Some(<<"a", "c">>), 2, TRUE, FALSE)

InitQuery ==
    /\ pc = "start"
    /\ \E q \in {None} \cup {Some(x) : x \in SeqsUpTo(QueryChars \cup NoiseChars, MaxQueryLen)} :
         list = [order |-> None, query |-> q, keyword |-> None]
    /\ fetched = <<Record2, Record1>>
    /\ probs = <<>>
    /\ queries = <<>>
    /\ rendered = <<>>

SpecQuery == InitQuery /\ [][list_problems]_vars

\* The table of spec section 4.1.
ClauseTable ==
    [c \in QueryChars |->
        CASE c = "e" -> "Easy" [] c = "E" -> "NotEasy"
          [] c = "m" -> "Medium" [] c = "M" -> "NotMedium"
          [] c = "h" -> "Hard" [] c = "H" -> "NotHard"
          [] c = "l" -> "Locked" [] c = "L" -> "Unlocked"
          [] c = "d" -> "Done" [] c = "D" -> "NotDone"
          [] c = "s" -> "Starred" [] c = "S" -> "Unstarred"]

IsRecognized(c) == c \in QueryChars
Denoised(q) == SelectSeq(q, IsRecognized)

\* C1: Query::from_str returns one clause per occurrence of a recognized
\* character, mapped as in the table and in the order of occurrence, and skips
\* every other character: the output is the output for the string with the
\* unrecognized characters removed, and the empty string gives no clause.
C1_ParserOnePerRecognized ==
    pc = "done" =>
        LET q == unwrap(list.query)
            kept == Denoised(q)
        IN  /\ Len(queries) = Cardinality({i \in DOMAIN q : IsRecognized(q[i])})
            /\ queries = [i \in DOMAIN kept |-> ClauseTable[kept[i]]]
            /\ queries = Query_from_str(kept)
            /\ (q = <<>> => queries = <<>>)

\* A string with noise between two different recognized characters was parsed.
C1_Witness ==
    /\ pc = "done"
    /\ unwrap(list.query) = <<"E", "x", "d">>
    /\ queries = <<"NotEasy", "Done">>

----------------------------------------------------------------------------
(* apply_queries on every record shape and every short clause string        *)

Levels == {1, 2, 3, 4}
Statuses == {None, Some(<<"a", "c">>)}

EvalRecords ==
    {StatStatusPair(1, <<"a">>, st, lv, pd, fv) :
        st \in Statuses, lv \in Levels, pd \in BOOLEAN, fv \in BOOLEAN}

InitEval ==
    /\ pc = "start"
    /\ \E q \in {None} \cup {Some(x) : x \in SeqsUpTo(QueryChars, MaxClauseLen)} :
         list = [order |-> None, query |-> q, keyword |-> None]
    /\ \E r \in EvalRecords : fetched = <<r>>
    /\ probs = <<>>
    /\ queries = <<>>
    /\ rendered = <<>>

SpecEval == InitEval /\ [][Next]_vars

\* What each clause asks of a record, taken alone (spec section 4.2).
ClauseHolds(c, r) ==
    CASE c \in {"Easy", "Medium", "Hard"} ->
            r.level = (CASE c = "Easy" -> 1 [] c = "Medium" -> 2 [] c = "Hard" -> 3)
      [] c \in {"NotEasy", "NotMedium", "NotHard"} ->
            r.level # (CASE c = "NotEasy" -> 1 [] c = "NotMedium" -> 2 [] c = "NotHard" -> 3)
      [] c \in {"Locked", "Unlocked"} -> r.paid_only = (c = "Locked")
      [] c \in {"Done", "NotDone"} -> (r.status # None) = (c = "Done")
      [] c \in {"Starred", "Unstarred"} -> r.is_favor = (c = "Starred")

InSeq(r, s) == \E i \in DOMAIN s : s[i] = r

ClausesOf(l) ==
    IF is_some(l.query)
    THEN [i \in DOMAIN Denoised(unwrap(l.query)) |-> ClauseTable[Denoised(unwrap(l.query))[i]]]
    ELSE <<>>

\* C2: a record is accepted iff it satisfies each clause of the sequence taken
\* alone; the empty sequence accepts every record, and a sequence holding both
\* variants of one axis ("eE") accepts none and gives an empty result.
C2_ConjunctionLaw ==
    pc = "done" =>
        LET r == fetched[1]
            C == ClausesOf(list)
        IN  /\ InSeq(r, rendered) <=> \A i \in DOMAIN C : ClauseHolds(C[i], r)
            /\ (C = <<>> => rendered = <<r>>)
            /\ (list.query = Some(<<"e", "E">>) => rendered = <<>>)
            /\ rendered \in {<<>>, <<r>>}

\* A contradictory pair was evaluated on an Easy record and rejected it.
C2_Witness ==
    /\ pc = "done"
    /\ list.query = Some(<<"e", "E">>)
    /\ fetched[1].level = 1
    /\ rendered = <<>>

----------------------------------------------------------------------------
(* The sorter on every short catalog and every short -o string              *)

SortRecord(id, slug, level) == StatStatusPair(id, slug, None, level, FALSE, FALSE)

\* The records of end-to-end example 1, and two more that tie with them on
\* each axis.
RecA == SortRecord(1, <<"a">>, 2)
RecB == SortRecord(2, <<"b">>, 1)
RecC == SortRecord(3, <<"c">>, 1)
RecD == SortRecord(2, <<"a">>, 2)
RecE == SortRecord(1, <<"c">>, 1)
SortCatalog == {RecA, RecB, RecC, RecD, RecE}
Example1 == <<RecC, RecA, RecB>>

OrderChars == {"i", "I", "t", "T", "d", "D", "x"}

InitSort ==
    /\ pc = "start"
    /\ \E o \in {None} \cup {Some(x) : x \in SeqsUpTo(OrderChars, MaxOrderLen)} :
         list = [order |-> o, query |-> None, keyword |-> None]
    /\ fetched \in SeqsUpTo(SortCatalog, MaxProbs)
    /\ probs = <<>>
    /\ queries = <<>>
    /\ rendered = <<>>

SpecSort == InitSort /\ [][Leetcode_list_problems]_vars

\* The sort keys in force, for a present order specification.
Keys == OrderBy_from_str(unwrap(list.order))

Sorted == pc = "done" /\ is_some(list.order)

Reverse(s) == [i \in DOMAIN s |-> s[Len(s) + 1 - i]]
Ids(s) == [i \in DOMAIN s |-> s[i].question_id]
Count(r, s) == Cardinality({i \in DOMAIN s : s[i] = r})
IsPermutation(s, t) ==
    /\ Len(s) = Len(t)
    /\ \A i \in DOMAIN s : Count(s[i], s) = Count(s[i], t)

IsDesc(key) == key \in {"IdDesc", "TitleDesc", "DifficultyDesc"}

\* The value a key looks at.
KeyValue(key, r) ==
    CASE key \in {"IdAsc", "IdDesc"} -> r.question_id
      [] key \in {"TitleAsc", "TitleDesc"} -> r.question_title_slug
      [] key \in {"DifficultyAsc", "DifficultyDesc"} -> r.level

\* a strictly before b in the natural order of the key's axis
NaturallyBefore(key, a, b) ==
    IF key \in {"TitleAsc", "TitleDesc"}
    THEN cmp_str(a.question_title_slug, b.question_title_slug) = Less
    ELSE KeyValue(key, a) < KeyValue(key, b)

\* a strictly before b in the key's own direction
InDirection(key, a, b) ==
    IF IsDesc(key) THEN NaturallyBefore(key, b, a) ELSE NaturallyBefore(key, a, b)

EqualOnKeys(keys, a, b) == \A k \in DOMAIN keys : KeyValue(keys[k], a) = KeyValue(keys[k], b)

\* C3: with a non-empty sort-key sequence the output is a permutation of the
\* input in which, for every adjacent pair, the first key on which the two
\* records differ orders them in that key's own direction.
C3_FirstDifferingKeyDecides ==
    (Sorted /\ Keys # <<>>) =>
        /\ IsPermutation(probs, fetched)
        /\ \A i \in 1..(Len(probs) - 1) : \A k \in DOMAIN Keys :
              ( /\ EqualOnKeys(SubSeq(Keys, 1, k - 1), probs[i], probs[i + 1])
                /\ KeyValue(Keys[k], probs[i]) # KeyValue(Keys[k], probs[i + 1]) )
              => InDirection(Keys[k], probs[i], probs[i + 1])

\* Two keys of mixed direction were applied and the second one broke a tie.
C3_Witness ==
    /\ Sorted
    /\ Keys = <<"DifficultyAsc", "IdDesc">>
    /\ fetched = <<RecB, RecA, RecC>>
    /\ probs = <<RecC, RecB, RecA>>

\* The records of s that tie with x on every key, in the order s holds them.
TiedWith(x, keys, s) == SelectSeq(s, LAMBDA y : EqualOnKeys(keys, x, y))

\* C4: the sort is stable: records that compare equal under all active sort
\* keys keep their relative order.
C4_SortIsStable ==
    Sorted =>
        \A i \in DOMAIN fetched :
            TiedWith(fetched[i], Keys, probs) = TiedWith(fetched[i], Keys, fetched)

\* Two records tied on the only key were fetched in descending id order, among
\* records that had to move.
C4_Witness ==
    /\ Sorted
    /\ Keys = <<"DifficultyAsc">>
    /\ fetched = <<RecA, RecC, RecB>>
    /\ probs = <<RecC, RecB, RecA>>

IsExample1Sort == Sorted /\ fetched = Example1 /\ Keys = <<"DifficultyAsc", "IdAsc">>

\* C6 as stated: example 1 under (difficulty ascending, id ascending) comes out
\* in the order id 3, id 2, id 1.
C6_Original == IsExample1Sort => Ids(probs) = <<3, 2, 1>>

\* C6, amended: example 1 under (difficulty ascending, id ascending) comes out
\* in the order id 2, id 3, id 1: the two difficulty-1 records in ascending id
\* order, then the difficulty-2 record.
C6_Example1Order == IsExample1Sort => probs = <<RecB, RecC, RecA>>

C6_Witness == IsExample1Sort /\ Ids(probs) = <<2, 3, 1>>

AscendingToken(key) ==
    CASE key = "IdDesc" -> "i" [] key = "TitleDesc" -> "t" [] key = "DifficultyDesc" -> "d"

\* s is sorted ascending by the key's axis
AscendingBy(key, s) == \A i \in 1..(Len(s) - 1) : ~NaturallyBefore(key, s[i + 1], s[i])

\* no two records of s share the key's value
DistinctOn(key, s) ==
    \A i, j \in DOMAIN s : i # j => KeyValue(key, s[i]) # KeyValue(key, s[j])

SingleDescending == Sorted /\ Len(Keys) = 1 /\ IsDesc(Keys[1]) /\ AscendingBy(Keys[1], fetched)

\* C7 as stated: on every sequence already sorted ascending by one key, the
\* sort by the descending variant of that key is the exact reverse of the
\* single-key ascending sort.
C7_Original ==
    SingleDescending =>
        probs = Reverse(sort_by(fetched, Some(<<AscendingToken(Keys[1])>>)))

\* Some input, under difficulty ascending then id descending, is not the
\* reverse of its sort under difficulty ascending then id ascending.
MixedDirectionsDiffer ==
    \E f \in SeqsUpTo(SortCatalog, 2) :
        sort_by(f, Some(<<"d", "I">>)) # Reverse(sort_by(f, Some(<<"d", "i">>)))

\* C7, amended: on every sequence already sorted ascending by one key and
\* holding no two records with the same value of that key, the sort by the
\* descending variant of that key is the exact reverse of the single-key
\* ascending sort; and some input with two keys of mixed directions is not
\* the reverse of its all-ascending sort.
C7_SingleKeySymmetry ==
    /\ (SingleDescending /\ DistinctOn(Keys[1], fetched)) =>
            probs = Reverse(sort_by(fetched, Some(<<AscendingToken(Keys[1])>>)))
    /\ MixedDirectionsDiffer

\* Three records in ascending id order were sorted by id descending.
C7_Witness ==
    /\ SingleDescending
    /\ Keys = <<"IdDesc">>
    /\ fetched = <<RecA, RecB, RecC>>
    /\ probs = <<RecC, RecB, RecA>>

\* C10: when the order specification is present but parses to no sort key,
\* the comparator is Equal on every pair and the records stay in the order
\* they were fetched; the default ordering is used only when the order
\* specification is absent.
C10_EmptyKeysKeepFetchedOrder ==
    pc = "done" =>
        /\ (is_some(list.order) /\ Keys = <<>>) =>
              /\ \A i, j \in DOMAIN fetched :
                    compare(list.order, fetched[i], fetched[j]) = Equal
              /\ probs = fetched
        /\ is_none(list.order) =>
              /\ IsPermutation(probs, fetched)
              /\ \A i \in 1..(Len(probs) - 1) :
                    derived_cmp(probs[i], probs[i + 1]) # Greater

\* An order string of one unrecognized token left a catalog fetched in
\* descending id order as it was.
C10_Witness ==
    /\ pc = "done"
    /\ list.order = Some(<<"x">>)
    /\ fetched = <<RecC, RecB, RecA>>
    /\ probs = <<RecC, RecB, RecA>>

----------------------------------------------------------------------------
(* The default ordering on every short catalog                              *)

DefaultRecords ==
    {StatStatusPair(id, <<sl>>, st, lv, pd, FALSE) :
        id \in {1, 2, 3}, sl \in {"a", "b"}, st \in Statuses, lv \in {1, 2}, pd \in BOOLEAN}

InitDefault ==
    /\ pc = "start"
    /\ \E q \in {None, Some(<<>>)} : list = [order |-> None, query |-> q, keyword |-> None]
    /\ fetched \in SeqsUpTo(DefaultRecords, MaxDefaultProbs)
    /\ probs = <<>>
    /\ queries = <<>>
    /\ rendered = <<>>

SpecDefault == InitDefault /\ [][Next]_vars

\* The record as the tuple of its fields in declaration order.
FieldTuple(r) ==
    <<r.question_id, r.question_title_slug, r.status, r.level, r.paid_only, r.is_favor>>

\* C8: without an order specification the records are sorted by the derived
\* field-order comparison of the whole record (records that are not in that
\* order differ first in a field where the earlier one is the smaller), and
\* when the identifiers are pairwise distinct the result is exactly the
\* records in ascending identifier order, whatever the other fields hold.
C8_DefaultIsAscendingId ==
    (pc = "done" /\ is_none(list.order)) =>
        /\ IsPermutation(probs, fetched)
        /\ \A i \in 1..(Len(probs) - 1) :
              LET a == FieldTuple(probs[i])
                  b == FieldTuple(probs[i + 1])
              IN  a # b => a[1] <= b[1] /\ derived_cmp(probs[i], probs[i + 1]) = Less
        /\ DistinctOn("IdAsc", fetched) =>
              \A i \in 1..(Len(probs) - 1) :
                  probs[i].question_id < probs[i + 1].question_id

\* Two records with distinct identifiers, fetched in descending identifier
\* order and with every other field pulling the other way, were sorted.
C8_Witness ==
    /\ pc = "done"
    /\ is_none(list.order)
    /\ fetched = <<StatStatusPair(3, <<"a">>, None, 1, FALSE, FALSE),
                   StatStatusPair(1, <<"b">>, Some(<<"a", "c">>), 2, TRUE, FALSE)>>
    /\ Ids(probs) = <<1, 3>>

----------------------------------------------------------------------------
(* The keyword filter on the slugs of example 4 and on short keywords        *)

TwoSum == <<"t", "w", "o", "-", "s", "u", "m">>
ThreeSum == <<"3", "s", "u", "m">>
TwoSumII == <<"t", "w", "o", "-", "s", "u", "m", "-", "i", "i">>

KeywordSlugs == {TwoSum, ThreeSum, TwoSumII, <<"s", "u">>, <<"S", "u">>, <<"e_acute", "s">>}
KeywordChars == {"s", "S", "u", "U", "e_acute", "E_ACUTE"}

KeywordRecords ==
    {StatStatusPair(1, sl, None, lv, FALSE, FALSE) : sl \in KeywordSlugs, lv \in {1, 2}}

Example4 ==
    <<StatStatusPair(1, TwoSum, None, 1, FALSE, FALSE),
      StatStatusPair(2, ThreeSum, None, 2, FALSE, FALSE),
      StatStatusPair(3, TwoSumII, None, 2, FALSE, FALSE)>>

Keywords ==
    {None, Some(TwoSum), Some(<<"T", "w", "o", "-", "S", "U", "M">>)}
        \cup {Some(x) : x \in SeqsUpTo(KeywordChars, MaxKeywordLen)}

InitKeyword ==
    /\ pc = "start"
    /\ \E q \in {None, Some(<<"e">>)}, k \in Keywords :
         list = [order |-> None, query |-> q, keyword |-> k]
    /\ fetched \in {Example4} \cup {<<r>> : r \in KeywordRecords}
    /\ probs = <<>>
    /\ queries = <<>>
    /\ rendered = <<>>

SpecKeyword == InitKeyword /\ [][Next]_vars

\* n occurs in h as a contiguous substring
IsSubstring(n, h) == \E i \in 0..(Len(h) - Len(n)) : SubSeq(h, i + 1, i + Len(n)) = n

\* The keyword of the command, the empty string when absent.
KeywordOf(l) == IF l.keyword = None THEN <<>> ELSE l.keyword[1]

\* The lower-case and upper-case forms of the letters keywords are made of: of
\* the ASCII letters alone, and of every letter.
LowerAscii(c) == CASE c = "S" -> "s" [] c = "T" -> "t" [] c = "U" -> "u" [] c = "M" -> "m" [] OTHER -> c
UpperAscii(c) == CASE c = "s" -> "S" [] c = "t" -> "T" [] c = "u" -> "U" [] c = "m" -> "M" [] OTHER -> c
LowerAny(c) == IF c = "E_ACUTE" THEN "e_acute" ELSE LowerAscii(c)

PassesClauses(l, r) == \A i \in DOMAIN ClausesOf(l) : ClauseHolds(ClausesOf(l)[i], r)

\* C5 as stated: a record passes iff its slug contains the lower-cased keyword
\* (and the clauses hold).
C5_Original ==
    pc = "done" =>
        \A i \in DOMAIN fetched :
            InSeq(fetched[i], rendered) <=>
                /\ IsSubstring([j \in DOMAIN KeywordOf(list) |-> LowerAny(KeywordOf(list)[j])],
                               fetched[i].question_title_slug)
                /\ PassesClauses(list, fetched[i])

\* C5, amended: a record passes the keyword filter iff its title_slug contains
\* the keyword with its ASCII letters lower-cased as a contiguous substring,
\* so the match is insensitive to the case of the keyword's ASCII letters; an
\* absent or empty keyword passes every record; the keyword result is and-ed
\* with the clause result; keyword "two-sum" over two-sum, 3sum, two-sum-ii
\* keeps exactly two-sum and two-sum-ii.
C5_KeywordSubstring ==
    pc = "done" =>
        LET kw == KeywordOf(list)
            upper == [list EXCEPT !.keyword = Some([j \in DOMAIN kw |-> UpperAscii(kw[j])]),
                                  !.query = Some(<<>>)]
        IN  /\ \A i \in DOMAIN fetched :
                  /\ InSeq(fetched[i], rendered) <=>
                        /\ IsSubstring([j \in DOMAIN kw |-> LowerAscii(kw[j])],
                                       fetched[i].question_title_slug)
                        /\ PassesClauses(list, fetched[i])
                  /\ filter_predicate(upper, fetched[i]) <=>
                        IsSubstring([j \in DOMAIN kw |-> LowerAscii(kw[j])],
                                    fetched[i].question_title_slug)
            /\ (kw = <<>> /\ list.query = None) => rendered = probs
            /\ (fetched = Example4 /\ kw = TwoSum /\ list.query = None) =>
                  rendered = <<Example4[1], Example4[3]>>

\* A keyword in upper case matched the two slugs of example 4 that hold it.
C5_Witness ==
    /\ pc = "done"
    /\ list.keyword = Some(<<"T", "w", "o", "-", "S", "U", "M">>)
    /\ list.query = None
    /\ fetched = Example4
    /\ rendered = <<Example4[1], Example4[3]>>

----------------------------------------------------------------------------
(* Sorting, then filtering, on every short catalog                          *)

FilterRecords ==
    {StatStatusPair(id, <<sl>>, None, lv, FALSE, FALSE) :
        id \in {1, 2}, sl \in {"a", "b"}, lv \in {1, 2}}

InitFilter ==
    /\ pc = "start"
    /\ \E o \in {None, Some(<<"I">>)},
          q \in {None, Some(<<>>), Some(<<"e">>), Some(<<"e", "E">>)},
          k \in {None, Some(<<>>), Some(<<"a">>)} :
         list = [order |-> o, query |-> q, keyword |-> k]
    /\ fetched \in SeqsUpTo(FilterRecords, MaxFilterProbs)
    /\ probs = <<>>
    /\ queries = <<>>
    /\ rendered = <<>>

SpecFilter == InitFilter /\ [][Next]_vars

\* The record passes the keyword and every clause of the command.
Passes(l, r) ==
    /\ IsSubstring([j \in DOMAIN KeywordOf(l) |-> LowerAscii(KeywordOf(l)[j])],
                   r.question_title_slug)
    /\ PassesClauses(l, r)

\* C9: what the renderer gets is exactly the subsequence of the sorted
\* sequence made of the records that pass the filter, in the sorted sequence's
\* order; with neither a query nor a keyword the whole sorted sequence is
\* handed over, which is what filtering with an empty clause string and an
\* empty keyword gives.
C9_FilterKeepsSortedOrder ==
    pc = "done" =>
        /\ IsPermutation(probs, fetched)
        /\ rendered = SelectSeq(probs, LAMBDA r : Passes(list, r))
        /\ (list.query = None /\ list.keyword = None) =>
              /\ rendered = probs
              /\ rendered = filter(probs, [list EXCEPT !.query = Some(<<>>),
                                                       !.keyword = Some(<<>>)])

\* Two records that pass the filter and one that does not were fetched in
\* ascending id order and sorted by id descending.
C9_Witness ==
    /\ pc = "done"
    /\ list = [order |-> Some(<<"I">>), query |-> Some(<<"e">>), keyword |-> Some(<<"a">>)]
    /\ fetched = <<StatStatusPair(1, <<"a">>, None, 1, FALSE, FALSE),
                   StatStatusPair(1, <<"b">>, None, 1, FALSE, FALSE),
                   StatStatusPair(2, <<"a">>, None, 1, FALSE, FALSE)>>
    /\ probs = <<fetched[3], fetched[1], fetched[2]>>
    /\ rendered = <<fetched[3], fetched[1]>>

====
